---- MODULE Spec2Model ----
(***************************************************************************)
(* Model of src/app.py: the Streamlit dashboard script over the Firestore  *)
(* collection dm_value_signals_1x2.  One run of the script loads the       *)
(* collection (fetch_df), reads the four sidebar widgets, filters          *)
(* (apply_filters), derives the bet subset and the per-action columns      *)
(* (pick_by_action) and computes the home KPIs and the backtest figures.   *)
(*                                                                         *)
(* Cells.  A cell of a frame is <<"v", x>> for a value x, NaN for a        *)
(* missing float/object cell, NaT for a missing date; Python's None is     *)
(* None.  A string is the tuple of its characters, so that str.upper is    *)
(* computed character by character.  A quotient of two floats is kept as   *)
(* the pair <<numerator, denominator>> (floating-point rounding is not     *)
(* modelled).                                                              *)
(*                                                                         *)
(* Spec is the script as Streamlit runs it: a first run with the widgets   *)
(* at their defaults, then one whole rerun per widget change, the widgets  *)
(* offering only the options lines 74-84 build from the frame.  FnSpec     *)
(* calls apply_filters and pick_by_action directly, on arguments the       *)
(* sidebar never produces.                                                 *)
(*                                                                         *)
(* Left out: the Firestore connection and the ttl cache (the frame is      *)
(* loaded once), the crosstab, ev_sum, and everything that only renders    *)
(* (tables, charts, the CSV export).  Documents hold no explicit null.     *)
(***************************************************************************)
EXTENDS Integers, Sequences, FiniteSets, TLC

VARIABLES docs, df, league, cb_action, date_from, date_to,
          df_f, df_bets, kpi, picked, pc

vars == <<docs, df, league, cb_action, date_from, date_to,
          df_f, df_bets, kpi, picked, pc>>

\* ------------------------------------------------------------------ bounds
\* Most documents in the collection.
MaxRows == 2
\* Calendar days 1..MaxDate.
MaxDate == 2

\* ------------------------------------------------------------------ cells
NaN == <<"NaN">>
NaT == <<"NaT">>
None == <<"None">>
Val(x) == <<"v", x>>
IsVal(c) == c[1] = "v"
\* pandas isna / notna: NaN, NaT and None are all missing.
notna(c) == IsVal(c)

\* ------------------------------------------------------------------ strings
ALL == <<"A", "L", "L">>
NO_BET == <<"N", "O", "_", "B", "E", "T">>
sH == <<"H">>
sD == <<"D">>
sA == <<"A">>
L1 == <<"L", "1">>
L2 == <<"L", "2">>

UpperChar(c) ==
  CASE c = "a" -> "A" [] c = "b" -> "B" [] c = "d" -> "D" [] c = "e" -> "E"
    [] c = "h" -> "H" [] c = "l" -> "L" [] c = "n" -> "N" [] c = "o" -> "O"
    [] c = "t" -> "T" [] c = "x" -> "X"
    [] OTHER -> c

\* str.upper
upper(s) == [i \in DOMAIN s |-> UpperChar(s[i])]

\* str(x) / astype(str) of an object cell: a missing cell prints as "nan",
\* None as "None".
str(c) ==
  IF IsVal(c) THEN c[2]
  ELSE IF c = None THEN <<"N", "o", "n", "e">>
  ELSE <<"n", "a", "n">>

\* ------------------------------------------------------------------ loader
\* Raw store values.  A date is the text of day k in %Y-%m-%d form,
\* <<"iso", k>>, or text that is no date; a number is Val(n) or text that is
\* no number; a key a document lacks is NaN in the frame built from it.
RawIso(k) == <<"iso", k>>
RawText == <<"not-a-date">>

\* pd.to_datetime(format="%Y-%m-%d", errors="coerce")
to_datetime(raw) == IF raw[1] = "iso" THEN Val(raw[2]) ELSE NaT

\* pd.to_numeric(errors="coerce")
to_numeric(raw) == IF raw[1] = "v" THEN raw ELSE NaN

NumericColumns == {"cb_stake", "cb_pnl", "cb_bank_after", "cb_dd_after"}

\* One row of the frame: the document's fields, its id, and the coerced types.
LoadRow(d, id) ==
  [f \in (DOMAIN d) \cup {"_doc_id"} |->
     IF f = "_doc_id" THEN id
     ELSE IF f = "date" THEN to_datetime(d[f])
     ELSE IF f \in NumericColumns THEN to_numeric(d[f])
     ELSE d[f]]

fetch_df(ds) == [i \in DOMAIN ds |-> LoadRow(ds[i], i)]

\* The columns of DataFrame(rows): the keys some document carries.
AllKeys == {"date", "dia_id", "league", "cb_action", "result", "cb_stake",
            "cb_pnl", "cb_bank_after", "cb_dd_after", "ev_H", "ev_D", "ev_A",
            "edge_H", "edge_D", "edge_A"}

Columns(ds) == {"_doc_id"} \cup {f \in AllKeys : \E i \in DOMAIN ds : ds[i][f] # NaN}

\* ------------------------------------------------------------------ filter
\* Boolean indexing s[mask]: the rows of s whose mask is true, in order.
RECURSIVE SelectFrom(_, _, _)
SelectFrom(s, mask, i) ==
  IF i > Len(s) THEN <<>>
  ELSE IF mask[i] THEN <<s[i]>> \o SelectFrom(s, mask, i + 1)
  ELSE SelectFrom(s, mask, i + 1)

SelectRows(s, mask) == SelectFrom(s, mask, 1)

\* Sort keys with na_position="last": a missing key is after every value.
KeyLT(x, y) == IsVal(x) /\ (~IsVal(y) \/ x[2] < y[2])
KeyEQ(x, y) == (IsVal(x) /\ IsVal(y) /\ x[2] = y[2]) \/ (~IsVal(x) /\ ~IsVal(y))

\* Row a is strictly before row b on ["date", "dia_id"], ascending.
RowLT(a, b) ==
  \/ KeyLT(a.date, b.date)
  \/ KeyEQ(a.date, b.date) /\ KeyLT(a.dia_id, b.dia_id)

\* InsertRow with r placed before the rows it ties with (an unstable sort).
RECURSIVE InsertRow_beforeTies(_, _)
InsertRow_beforeTies(s, r) ==
  IF s = <<>> THEN <<r>>
  ELSE IF ~RowLT(Head(s), r) THEN <<r>> \o s
  ELSE <<Head(s)>> \o InsertRow_beforeTies(Tail(s), r)

\* r placed after every row of the sorted s that is not after it.
RECURSIVE InsertRow(_, _)
InsertRow(s, r) ==
  IF s = <<>> THEN <<r>>
  ELSE IF RowLT(r, Head(s)) THEN <<r>> \o s
  ELSE <<Head(s)>> \o InsertRow(Tail(s), r)

RECURSIVE SortFrom(_, _)
SortFrom(sorted, rest) ==
  IF rest = <<>> THEN sorted
  ELSE SortFrom(InsertRow(sorted, Head(rest)), Tail(rest))

\* DataFrame.sort_values(["date","dia_id"], ascending=True, na_position="last"):
\* the stable lexicographic sort pandas uses for several keys.
sort_values(s) == SortFrom(<<>>, s)

\* DateLE with the upper bound excluded.
DateLE_exclusive(c, bound) == IsVal(c) /\ IsVal(bound) /\ c[2] < bound[2]

\* ActionMask comparing the cell as stored, not uppercased.
ActionMask_asStored(r, act) == act = ALL \/ str(r.cb_action) = act

\* Comparison of a date cell with a bound: any comparison with NaT is False.
DateGE(c, bound) == IsVal(c) /\ IsVal(bound) /\ c[2] >= bound[2]
DateLE(c, bound) == IsVal(c) /\ IsVal(bound) /\ c[2] <= bound[2]

LeagueMask(r, lg) == lg = ALL \/ (IsVal(r.league) /\ r.league[2] = lg)
ActionMask(r, act) == act = ALL \/ upper(str(r.cb_action)) = act
DateMask(r, from, to) == DateGE(r.date, from) /\ DateLE(r.date, to)

apply_filters(frame, lg, from, to, act) ==
  LET out1 == SelectRows(frame, [i \in DOMAIN frame |-> LeagueMask(frame[i], lg)])
      out2 == SelectRows(out1, [i \in DOMAIN out1 |-> ActionMask(out1[i], act)])
      out3 == SelectRows(out2, [i \in DOMAIN out2 |-> DateMask(out2[i], from, to)])
  IN sort_values(out3)

\* ------------------------------------------------------------------ picker
KeyError == <<"KeyError">>
IndexError == <<"IndexError">>
ZeroDivisionError == <<"ZeroDivisionError">>

\* Series.get(key, default): the default when the frame has no such column.
Get(row, f, cols, default) == IF f \in cols THEN row[f] ELSE default

\* pick_by_action comparing cb_action as stored, not uppercased.
pick_by_action_asStored(row, prefix, cols) ==
  LET a == str(Get(row, "cb_action", cols, Val(<<>>)))
  IN IF a = sH THEN Get(row, prefix \o "_H", cols, None)
     ELSE IF a = sD THEN Get(row, prefix \o "_D", cols, None)
     ELSE IF a = sA THEN Get(row, prefix \o "_A", cols, None)
     ELSE None

pick_by_action(row, prefix, cols) ==
  LET a == upper(str(Get(row, "cb_action", cols, Val(<<>>))))
  IN IF a = sH THEN Get(row, prefix \o "_H", cols, None)
     ELSE IF a = sD THEN Get(row, prefix \o "_D", cols, None)
     ELSE IF a = sA THEN Get(row, prefix \o "_A", cols, None)
     ELSE None

\* ------------------------------------------------------------------ derived
\* is_bet comparing cb_action as stored, not uppercased.
is_bet_asStored(r) == str(r.cb_action) # NO_BET

is_bet(r) == upper(str(r.cb_action)) # NO_BET

Extend(r, g) == [f \in (DOMAIN r) \cup (DOMAIN g) |-> IF f \in DOMAIN g THEN g[f] ELSE r[f]]

\* df_f["is_bet"] = ...
WithIsBet(frame) == [i \in DOMAIN frame |-> Extend(frame[i], [is_bet |-> is_bet(frame[i])])]

\* df_bets = df_f[df_f["is_bet"]].copy(), then the ev_cb and edge_cb columns.
BetRows(frame, cols) ==
  LET sel == SelectRows(frame, [i \in DOMAIN frame |-> frame[i].is_bet])
  IN [i \in DOMAIN sel |->
        Extend(sel[i], [ev_cb |-> pick_by_action(sel[i], "ev", cols),
                        edge_cb |-> pick_by_action(sel[i], "edge", cols)])]
\* ------------------------------------------------------------------ aggregator
fillna0(c) == IF IsVal(c) THEN c[2] ELSE 0

\* frame[f].fillna(0).sum(); a groupby "sum" skips missing cells to the same effect.
RECURSIVE SumFrom(_, _, _)
SumFrom(frame, f, i) ==
  IF i > Len(frame) THEN 0 ELSE fillna0(frame[i][f]) + SumFrom(frame, f, i + 1)

SumCol(frame, f) == SumFrom(frame, f, 1)

\* frame[f].dropna(): the present cells of the column, in row order.
dropna(frame, f) ==
  LET col == [i \in DOMAIN frame |-> frame[i][f]]
  IN SelectRows(col, [i \in DOMAIN col |-> notna(col[i])])

\* frame[f].notna().any()
AnyNotna(frame, f) == \E i \in DOMAIN frame : notna(frame[i][f])

\* iloc[0] in place of iloc[-1].
iloc_first(s) == IF s = <<>> THEN IndexError ELSE s[1]

\* Series.iloc[-1]
iloc_last(s) == IF s = <<>> THEN IndexError ELSE s[Len(s)]

\* Series.max() of a column without missing cells.
MaxOf(s) == CHOOSE c \in {s[i] : i \in DOMAIN s} : \A j \in DOMAIN s : s[j][2] <= c[2]

\* Float division p / s, as the pair <<p, s>>.
Div(p, s) == IF s = 0 THEN ZeroDivisionError ELSE <<p, s>>
Zero == <<0, 1>>

stake_total(bets_rows) == IF Len(bets_rows) # 0 THEN SumCol(bets_rows, "cb_stake") ELSE 0
pnl_total(bets_rows) == IF Len(bets_rows) # 0 THEN SumCol(bets_rows, "cb_pnl") ELSE 0

\* roi_simple without the stake guard.
roi_simple_unguarded(pnl, stake) == Div(pnl, stake)

\* roi_simple = (pnl_total / stake_total) if stake_total > 0 else 0.0
roi_simple(pnl, stake) == IF stake > 0 THEN Div(pnl, stake) ELSE Zero

bank_final(frame) ==
  IF AnyNotna(frame, "cb_bank_after") THEN iloc_last(dropna(frame, "cb_bank_after")) ELSE None

max_dd(frame) ==
  IF AnyNotna(frame, "cb_dd_after") THEN MaxOf(dropna(frame, "cb_dd_after")) ELSE None

\* (cb_action.astype(str).str.upper() == result.astype(str).str.upper()).mean()
HitMask(r) == upper(str(r.cb_action)) = upper(str(r.result))
hit_rate(bets_rows) ==
  Div(Cardinality({i \in DOMAIN bets_rows : HitMask(bets_rows[i])}), Len(bets_rows))

\* roi_simple of a league row: (pnl_total/stake_total) if stake_total else 0.0
league_roi(pnl, stake) == IF stake # 0 THEN Div(pnl, stake) ELSE Zero

\* groupby("league", dropna=False).agg(...): one row per league cell of the bets,
\* the missing league included.  (ev_sum and the presentation sort are left out.)
by_league(bets_rows) ==
  [g \in {bets_rows[i].league : i \in DOMAIN bets_rows} |->
     LET grp == SelectRows(bets_rows, [i \in DOMAIN bets_rows |-> bets_rows[i].league = g])
         st == SumCol(grp, "cb_stake")
         pn == SumCol(grp, "cb_pnl")
     IN [bets |-> Len(grp), stake_total |-> st, pnl_total |-> pn,
         roi_simple |-> league_roi(pn, st)]]

\* Home KPIs, and the backtest figures of the tab that is skipped when bets == 0.
Kpis(frame_f, bets_rows) ==
  LET st == stake_total(bets_rows)
      pn == pnl_total(bets_rows)
  IN [matches |-> Len(frame_f),
      bets |-> Len(bets_rows),
      stake_total |-> st,
      pnl_total |-> pn,
      roi_simple |-> roi_simple(pn, st),
      bank_final |-> bank_final(frame_f),
      max_dd |-> max_dd(frame_f),
      hit_rate |-> IF Len(bets_rows) = 0 THEN None ELSE hit_rate(bets_rows),
      by_league |-> IF Len(bets_rows) = 0 THEN <<>> ELSE by_league(bets_rows)]

\* ------------------------------------------------------------------ the store
BaseDoc ==
  [date |-> RawIso(1), dia_id |-> Val(1), league |-> Val(L1), cb_action |-> Val(sH),
   result |-> Val(sH), cb_stake |-> Val(1), cb_pnl |-> Val(1),
   cb_bank_after |-> Val(5), cb_dd_after |-> Val(0),
   ev_H |-> Val(1), ev_D |-> Val(2), ev_A |-> Val(3),
   edge_H |-> Val(4), edge_D |-> Val(5), edge_A |-> Val(6)]

NotANumber == <<"n/a">>
RawDates == {RawIso(k) : k \in 1..MaxDate} \cup {RawText}

\* The collections checked.  The documents of one collection differ in one group
\* of fields and agree with BaseDoc on the others.
DateDocs ==
  {Extend(BaseDoc, [date |-> d, dia_id |-> k]) : d \in RawDates, k \in {Val(1), Val(2), NaN}}

BankDocs ==
  {Extend(BaseDoc, [date |-> RawIso(o[1]), dia_id |-> Val(o[2]),
                    cb_bank_after |-> b[1], cb_dd_after |-> b[2]]) :
     o \in {<<1, 1>>, <<1, 2>>, <<2, 1>>},
     b \in {<<Val(5), Val(1)>>, <<Val(0), Val(0)>>,
            <<NotANumber, NotANumber>>, <<NotANumber, Val(1)>>}}

ActionDocs ==
  {Extend(BaseDoc, [cb_action |-> a, result |-> r]) :
     a \in {Val(sH), Val(<<"h">>), Val(NO_BET), Val(<<"n", "o", "_", "b", "e", "t">>),
            Val(<<"x">>), NaN},
     r \in {Val(sH), Val(<<"d">>), NaN}}

PickDocs ==
  {Extend(BaseDoc, [cb_action |-> a, ev_H |-> e[1], ev_D |-> e[2], edge_A |-> e[3]]) :
     a \in {Val(sH), Val(<<"h">>), Val(sD), Val(sA), Val(NO_BET), Val(<<"x">>), NaN},
     e \in {<<Val(1), Val(2), Val(6)>>, <<NaN, NaN, NaN>>}}

KpiDocs ==
  {Extend(BaseDoc, [cb_stake |-> s, cb_pnl |-> p, league |-> Val(l)]) :
     s \in {Val(0 - 1), Val(0), Val(2), NotANumber},
     p \in {Val(1), NotANumber},
     l \in {L1, L2}}

SeqsUpTo(S, n) == UNION {[1..m -> S] : m \in 1..n}

Stores ==
  SeqsUpTo(DateDocs, MaxRows) \cup SeqsUpTo(BankDocs, MaxRows) \cup
  SeqsUpTo(ActionDocs, MaxRows) \cup SeqsUpTo(PickDocs, MaxRows) \cup
  SeqsUpTo(KpiDocs, MaxRows)

FnStores == SeqsUpTo(ActionDocs, MaxRows) \cup SeqsUpTo(PickDocs, MaxRows)

\* ------------------------------------------------------------------ the script
ValidDates(frame) == {frame[i].date[2] : i \in {j \in DOMAIN frame : IsVal(frame[j].date)}}
SetMin(S) == CHOOSE x \in S : \A y \in S : x <= y
SetMax(S) == CHOOSE x \in S : \A y \in S : y <= x

\* df["date"].min().date() and .max().date(): missing dates are skipped.
min_date(frame) == Val(SetMin(ValidDates(frame)))
max_date(frame) == Val(SetMax(ValidDates(frame)))

\* The options of the two select boxes.
leagues(frame) ==
  {ALL} \cup {frame[i].league[2] : i \in {j \in DOMAIN frame : notna(frame[j].league)}}
actions(frame) ==
  {ALL} \cup {upper(str(frame[i].cb_action)) :
                i \in {j \in DOMAIN frame : notna(frame[j].cb_action)}}
\* The days a date input offers: min_value..max_value.
DateOptions(frame) == {Val(k) : k \in min_date(frame)[2]..max_date(frame)[2]}

\* The script gets as far as the sidebar: the columns it indexes exist and some
\* date parsed.
SidebarOK(ds) ==
  /\ {"league", "cb_action"} \subseteq Columns(ds)
  /\ ValidDates(fetch_df(ds)) # {}

\* A later lookup of a column no document carries raises KeyError.
Raises(cols, nbets) ==
  \/ ~({"dia_id", "cb_bank_after", "cb_dd_after"} \subseteq cols)
  \/ nbets > 0 /\ ~({"cb_stake", "cb_pnl", "result"} \subseteq cols)

\* One run of the script below the sidebar, lines 86-193.
Run(frame, lg, act, from, to) ==
  LET cols == Columns(docs)
      f == WithIsBet(apply_filters(frame, lg, from, to, act))
      b == BetRows(f, cols)
  IN /\ league' = lg /\ cb_action' = act /\ date_from' = from /\ date_to' = to
     /\ IF Raises(cols, Len(b))
        THEN pc' = "raised" /\ UNCHANGED <<df_f, df_bets, kpi>>
        ELSE pc' = "done" /\ df_f' = f /\ df_bets' = b /\ kpi' = Kpis(f, b)

Init ==
  /\ docs \in Stores
  /\ df = <<>> /\ df_f = <<>> /\ df_bets = <<>> /\ kpi = <<>> /\ picked = <<>>
  /\ league = ALL /\ cb_action = ALL /\ date_from = NaT /\ date_to = NaT
  /\ pc = "start"

\* The first run: fetch, widgets at their defaults.
FirstRun ==
  /\ pc = "start"
  /\ df' = fetch_df(docs)
  /\ UNCHANGED <<docs, picked>>
  /\ IF SidebarOK(docs)
     THEN Run(df', ALL, ALL, min_date(df'), max_date(df'))
     ELSE pc' = "error" /\ UNCHANGED <<league, cb_action, date_from, date_to, df_f, df_bets, kpi>>

Shown == pc \in {"done", "raised"}

ChangeLeague ==
  /\ Shown
  /\ \E lg \in leagues(df) \ {league} : Run(df, lg, cb_action, date_from, date_to)
  /\ UNCHANGED <<docs, df, picked>>

ChangeAction ==
  /\ Shown
  /\ \E act \in actions(df) \ {cb_action} : Run(df, league, act, date_from, date_to)
  /\ UNCHANGED <<docs, df, picked>>

ChangeDateFrom ==
  /\ Shown
  /\ \E d \in DateOptions(df) \ {date_from} : Run(df, league, cb_action, d, date_to)
  /\ UNCHANGED <<docs, df, picked>>

ChangeDateTo ==
  /\ Shown
  /\ \E d \in DateOptions(df) \ {date_to} : Run(df, league, cb_action, date_from, d)
  /\ UNCHANGED <<docs, df, picked>>

Next == FirstRun \/ ChangeLeague \/ ChangeAction \/ ChangeDateFrom \/ ChangeDateTo

Spec == Init /\ [][Next]_vars

\* ------------------------------------------------------------------ the functions
\* apply_filters and pick_by_action called directly, on arguments the sidebar
\* would not produce.
ArgActions == {ALL, sH, <<"h">>, NO_BET, <<"n", "o", "_", "b", "e", "t">>}

FnInit ==
  /\ docs \in {ds \in FnStores : SidebarOK(ds) /\ ~Raises(Columns(ds), 1)}
  /\ df = fetch_df(docs)
  /\ df_f = <<>> /\ df_bets = <<>> /\ kpi = <<>> /\ picked = <<>>
  /\ league = ALL /\ cb_action = ALL /\ date_from = Val(1) /\ date_to = Val(MaxDate)
  /\ pc = "start"

FnApplyFilters ==
  /\ \E act \in ArgActions \ {IF pc = "start" THEN <<>> ELSE cb_action} :
       Run(df, league, act, date_from, date_to)
  /\ UNCHANGED <<docs, df, picked>>

\* df.apply(lambda r: pick_by_action(r, prefix), axis=1) over the whole frame.
FnPick ==
  /\ picked = <<>>
  /\ picked' = [p \in {"ev", "edge"} |->
                  [i \in DOMAIN df |-> pick_by_action(df[i], p, Columns(docs))]]
  /\ UNCHANGED <<docs, df, league, cb_action, date_from, date_to, df_f, df_bets, kpi, pc>>

FnNext == FnApplyFilters \/ FnPick

FnSpec == FnInit /\ [][FnNext]_vars

\* ------------------------------------------------------------------ properties
Ids(frame) == [i \in DOMAIN frame |-> frame[i]._doc_id]
IdSet(frame) == {frame[i]._doc_id : i \in DOMAIN frame}
ParsedDays == {df[i].date[2] : i \in {j \in DOMAIN df : df[j].date # NaT}}
Done == pc = "done"

\* Row a is not after row b in (date, diaId) order, a missing key counting as
\* after every value.
KeyNotAfter(x, y) == y[1] # "v" \/ (x[1] = "v" /\ x[2] <= y[2])
SameKey(x, y) == (x[1] # "v" /\ y[1] # "v") \/ (x[1] = "v" /\ y[1] = "v" /\ x[2] = y[2])
Chronological(frame) ==
  \A i, j \in DOMAIN frame :
    i < j =>
      /\ KeyNotAfter(frame[i].date, frame[j].date)
      /\ SameKey(frame[i].date, frame[j].date) => KeyNotAfter(frame[i].dia_id, frame[j].dia_id)

\* The rows of the loaded frame, by id, as the filtered frame carries them.
Carried(frame) ==
  \A i \in DOMAIN frame :
    /\ frame[i]._doc_id \in DOMAIN df
    /\ \A f \in DOMAIN df[frame[i]._doc_id] : frame[i][f] = df[frame[i]._doc_id][f]

\* C1: with league "ALL", action "ALL", dateFrom the least and dateTo the
\* greatest parsed date of the loaded set, the filter returns every loaded
\* record exactly once, in ascending (date, diaId) order -- also for sets that
\* hold rows whose date failed to parse.
C1_FullRangeReturnsAll ==
  (/\ Done /\ league = ALL /\ cb_action = ALL
   /\ date_from[1] = "v" /\ date_to[1] = "v"
   /\ date_from[2] \in ParsedDays /\ date_to[2] \in ParsedDays
   /\ \A d \in ParsedDays : date_from[2] <= d /\ d <= date_to[2])
  => /\ Len(df_f) = Len(df)
     /\ IdSet(df_f) = DOMAIN df
     /\ Carried(df_f)
     /\ Chronological(df_f)

\* C2: a record passes the date predicate iff its date is valid and
\* dateFrom <= date <= dateTo, both ends included; a record with an invalid
\* date is never in the filter's output.
C2_DateRangeInclusive ==
  Done =>
    /\ \A i \in DOMAIN df_f :
         /\ df_f[i].date[1] = "v"
         /\ date_from[2] <= df_f[i].date[2] /\ df_f[i].date[2] <= date_to[2]
    /\ (league = ALL /\ cb_action = ALL) =>
         IdSet(df_f) = {i \in DOMAIN df :
                          /\ df[i].date[1] = "v"
                          /\ date_from[2] <= df[i].date[2]
                          /\ df[i].date[2] <= date_to[2]}

C2_Witness ==
  /\ Done /\ league = ALL /\ cb_action = ALL
  /\ date_from = date_to
  /\ \E i \in DOMAIN df : df[i].date = NaT
  /\ \E i \in DOMAIN df_f : df_f[i].date = date_from

\* C3: the filter's output is ascending by date, then by diaId among rows of
\* equal date, a missing diaId after every present one of the same date; rows
\* equal (or both missing) on both keys keep their input order.
C3_SortedStable ==
  Done =>
    /\ Chronological(df_f)
    /\ \A i, j \in DOMAIN df_f :
         (/\ i < j
          /\ SameKey(df_f[i].date, df_f[j].date)
          /\ SameKey(df_f[i].dia_id, df_f[j].dia_id))
         => df_f[i]._doc_id < df_f[j]._doc_id

C3_Witness ==
  /\ Done /\ Len(df_f) = 2
  /\ df_f[1].date = df_f[2].date
  /\ df_f[1].dia_id[1] = "v" /\ df_f[2].dia_id = NaN
  /\ df_f[1]._doc_id = 2

\* C4 (as stated): with actionFilter not "ALL", a record passes the action
\* predicate iff its cbAction uppercased equals actionFilter uppercased, for
\* every casing of actionFilter; "ALL" excludes no record.
C4_FilterCaseInsensitive ==
  (Done /\ league = ALL) =>
    IdSet(df_f) = {i \in DOMAIN df :
                     cb_action = ALL \/ upper(str(df[i].cb_action)) = upper(cb_action)}

\* C4 (amended): with actionFilter not "ALL", a record passes the action
\* predicate iff its cbAction uppercased equals actionFilter as given; "ALL"
\* excludes no record.
C4_FilterMatchesUppercasedCell ==
  (Done /\ league = ALL) =>
    IdSet(df_f) = {i \in DOMAIN df :
                     cb_action = ALL \/ upper(str(df[i].cb_action)) = cb_action}

C4_Witness ==
  /\ Done /\ league = ALL /\ cb_action = sH
  /\ \E i \in DOMAIN df : df[i].cb_action = Val(<<"h">>) /\ i \in IdSet(df_f)
  /\ \E i \in DOMAIN df : i \notin IdSet(df_f)

\* C5: pick(record, prefix) is the record's {prefix}_H field when cbAction
\* uppercased is "H", {prefix}_D for "D", {prefix}_A for "A", and absent for any
\* other cbAction; a selected field the record lacks gives absent, not an error.
Absent(v) == v = NaN \/ v = None
Field(r, f) == IF r[f][1] = "v" THEN r[f] ELSE NaN
C5_PickByAction ==
  picked # <<>> =>
    \A p \in {"ev", "edge"} : \A i \in DOMAIN df :
      LET a == upper(str(df[i].cb_action))
          got == picked[p][i]
          want == IF a = <<"H">> THEN Field(df[i], p \o "_H")
                  ELSE IF a = <<"D">> THEN Field(df[i], p \o "_D")
                  ELSE IF a = <<"A">> THEN Field(df[i], p \o "_A")
                  ELSE NaN
      IN IF want = NaN THEN Absent(got) ELSE got = want

C5_Witness ==
  /\ picked # <<>>
  /\ \E i \in DOMAIN df :
       /\ df[i].cb_action = Val(<<"h">>)
       /\ picked["ev"][i] = Val(1) /\ picked["edge"][i] = Val(4)
  /\ \E i \in DOMAIN df :
       df[i].cb_action = Val(sD) /\ df[i].ev_D = NaN /\ Absent(picked["ev"][i])

\* C6: isBet is false iff cbAction uppercased is "NO_BET" (so true for
\* unrecognized and missing actions); the bet subset is the filtered rows with
\* isBet true, in filtered order; evChosen and edgeChosen are on its rows only.
C6_IsBetAndSubset ==
  Done =>
    /\ \A i \in DOMAIN df_f :
         /\ df_f[i].is_bet = (upper(str(df_f[i].cb_action)) # NO_BET)
         /\ "ev_cb" \notin DOMAIN df_f[i] /\ "edge_cb" \notin DOMAIN df_f[i]
    /\ Ids(df_bets) = SelectRows(Ids(df_f), [i \in DOMAIN df_f |-> df_f[i].is_bet])
    /\ \A j \in DOMAIN df_bets : {"ev_cb", "edge_cb"} \subseteq DOMAIN df_bets[j]

C6_Witness ==
  /\ Done /\ Len(df_f) = 2 /\ Len(df_bets) = 1
  /\ \E i \in DOMAIN df_f :
       df_f[i].cb_action = Val(<<"n", "o", "_", "b", "e", "t">>) /\ ~df_f[i].is_bet
  /\ \E i \in DOMAIN df_f : df_f[i].cb_action = NaN /\ df_f[i].is_bet

\* C7: for the scalar KPI and for every league row alike, roiSimple is
\* pnlTotal / stakeTotal when stakeTotal > 0 and exactly 0 otherwise; no division
\* by zero occurs.
RoiIs(roi, pnl, stake) ==
  /\ roi # ZeroDivisionError
  /\ IF stake > 0 THEN roi[1] * stake = pnl * roi[2] ELSE roi[1] = 0
C7_RoiZeroGuard ==
  Done =>
    /\ RoiIs(kpi.roi_simple, kpi.pnl_total, kpi.stake_total)
    /\ \A g \in DOMAIN kpi.by_league :
         RoiIs(kpi.by_league[g].roi_simple, kpi.by_league[g].pnl_total,
               kpi.by_league[g].stake_total)

\* C8: bankFinal is the cbBankAfter of the chronologically last filtered row
\* that has one, absent iff no filtered row has one; 0 counts as present.
C8_BankFinal ==
  Done =>
    LET has == {i \in DOMAIN df_f : df_f[i].cb_bank_after[1] = "v"}
    IN IF has = {} THEN kpi.bank_final = None
       ELSE \E m \in has :
              /\ kpi.bank_final = df_f[m].cb_bank_after
              /\ \A j \in has :
                   /\ j <= m
                   /\ KeyNotAfter(df_f[j].date, df_f[m].date)
                   /\ SameKey(df_f[j].date, df_f[m].date)
                        => KeyNotAfter(df_f[j].dia_id, df_f[m].dia_id)

C8_Witness ==
  /\ Done /\ Len(df_f) = 2
  /\ kpi.bank_final = Val(0)
  /\ df_f[1]._doc_id = 2 /\ df_f[1].cb_bank_after = Val(5)

\* C9: for a non-empty bet subset, hitRate is the number of rows whose cbAction
\* uppercased equals their result uppercased over the number of all rows; a row
\* with an absent result never counts as a match and stays in the denominator.
C9_HitRate ==
  (Done /\ Len(df_bets) > 0) =>
    kpi.hit_rate =
      <<Cardinality({i \in DOMAIN df_bets :
                       /\ df_bets[i].result[1] = "v"
                       /\ upper(str(df_bets[i].cb_action)) = upper(df_bets[i].result[2])}),
        Len(df_bets)>>

====
